---- MODULE Spec2Model ----
(***************************************************************************)
(* Model of the ShopBrand classification pipeline (app.py, app_gemini.py)  *)
(* and of the dashboard's Save Changes handler (admin.py).                 *)
(*                                                                         *)
(* Text (file names, identifiers, backend payloads, CSV cells) is a        *)
(* sequence of one-character strings, so that startswith / endswith /      *)
(* split / replace / json.loads / read_csv are computed, not assumed.      *)
(***************************************************************************)
EXTENDS Integers, Sequences, FiniteSets, TLC

(* ----------------------------- bounds --------------------------------- *)
MaxIdLen == 2        \* longest identifier (filename prefix) in the evidence store
MaxIds == 2          \* most distinct identifiers in a small evidence store
MaxImages == 12      \* most evidence files of one identifier (above the cap)
MaxRuns == 2         \* pipeline runs per behaviour
MaxSaves == 1        \* dashboard Save Changes clicks per behaviour
MaxMembers == 2      \* most members of a generated JSON object text

(* ------------------------- program constants -------------------------- *)
ImageCap == 10       \* images[:10]
FenceOpenLen == 7    \* json_string[7:]
FenceCloseLen == 3   \* json_string[:-3]

(* ------------------------------ text ---------------------------------- *)
Digits == <<"0", "1", "2", "3", "4", "5", "6", "7", "8", "9">>
DigitSet == {Digits[i] : i \in 1..10}
Whitespace == {" ", "\n"}

Min(a, b) == IF a < b THEN a ELSE b

\* str.startswith
StartsWith(s, pre) ==
    Len(s) >= Len(pre) /\ SubSeq(s, 1, Len(pre)) = pre

\* str.endswith
EndsWith(s, suf) ==
    Len(s) >= Len(suf) /\ SubSeq(s, Len(s) - Len(suf) + 1, Len(s)) = suf

\* s[n:]
DropFirst(s, n) == SubSeq(s, Min(n, Len(s)) + 1, Len(s))

\* s[:-n]  (n > 0)
DropLast(s, n) == SubSeq(s, 1, IF Len(s) >= n THEN Len(s) - n ELSE 0)

RECURSIVE LStrip(_)
LStrip(s) ==
    IF s # <<>> /\ Head(s) \in Whitespace THEN LStrip(Tail(s)) ELSE s

RECURSIVE RStrip(_)
RStrip(s) ==
    IF s # <<>> /\ s[Len(s)] \in Whitespace
    THEN RStrip(SubSeq(s, 1, Len(s) - 1)) ELSE s

\* str.strip()
Strip(s) == RStrip(LStrip(s))

\* str.replace(old, new): leftmost, non-overlapping occurrences
RECURSIVE Replace(_, _, _)
Replace(s, old, new) ==
    IF Len(s) < Len(old) THEN s
    ELSE IF SubSeq(s, 1, Len(old)) = old
         THEN new \o Replace(DropFirst(s, Len(old)), old, new)
         ELSE <<Head(s)>> \o Replace(Tail(s), old, new)

\* index of the first occurrence of character c in s at or after i, 0 if none
RECURSIVE IndexFrom(_, _, _)
IndexFrom(s, c, i) ==
    IF i > Len(s) THEN 0
    ELSE IF s[i] = c THEN i ELSE IndexFrom(s, c, i + 1)

\* "c" in s
Contains(s, c) == IndexFrom(s, c, 1) # 0

\* s.split(c, 1)[0]
SplitFirst(s, c) ==
    IF Contains(s, c) THEN SubSeq(s, 1, IndexFrom(s, c, 1) - 1) ELSE s

IsDigits(s) == s # <<>> /\ \A i \in 1..Len(s) : s[i] \in DigitSet

DigitVal(c) == (CHOOSE i \in 1..10 : Digits[i] = c) - 1

\* int(s) for a digit string
RECURSIVE ToInt(_)
ToInt(s) ==
    IF s = <<>> THEN 0
    ELSE 10 * ToInt(SubSeq(s, 1, Len(s) - 1)) + DigitVal(s[Len(s)])

\* str(n) for n >= 0
RECURSIVE IntStr(_)
IntStr(n) ==
    IF n < 10 THEN <<Digits[n + 1]>>
    ELSE IntStr(n \div 10) \o <<Digits[(n % 10) + 1]>>

(* -------------------------- json.loads -------------------------------- *)
(* Values: [t |-> "lit", v |-> "true" | "false" | "null"],                *)
(*         [t |-> "str", v |-> text], [t |-> "int", v |-> n],              *)
(*         [t |-> "obj", v |-> function from key text to value]            *)
(* (the object_hook turns every object into a SimpleNamespace whose        *)
(* attributes are the keys).  The payload alphabet has no backslash,       *)
(* bracket, sign, fraction or exponent.                                    *)
JTrue == [t |-> "lit", v |-> "true"]
JFalse == [t |-> "lit", v |-> "false"]
JNull == [t |-> "lit", v |-> "null"]
JStr(s) == [t |-> "str", v |-> s]
JInt(n) == [t |-> "int", v |-> n]
JObj(f) == [t |-> "obj", v |-> f]
EmptyObj == [k \in {} |-> JNull]

TrueText == <<"t", "r", "u", "e">>
FalseText == <<"f", "a", "l", "s", "e">>
NullText == <<"n", "u", "l", "l">>

ParseFail == [ok |-> FALSE, val |-> JNull, next |-> 0]
ParseOk(val, next) == [ok |-> TRUE, val |-> val, next |-> next]

RECURSIVE SkipWS(_, _)
SkipWS(s, i) ==
    IF i <= Len(s) /\ s[i] \in Whitespace THEN SkipWS(s, i + 1) ELSE i

AtText(s, i, lit) ==
    i + Len(lit) - 1 <= Len(s) /\ SubSeq(s, i, i + Len(lit) - 1) = lit

\* end (exclusive) of the run of digits starting at i
RECURSIVE DigitsEnd(_, _)
DigitsEnd(s, i) ==
    IF i <= Len(s) /\ s[i] \in DigitSet THEN DigitsEnd(s, i + 1) ELSE i

\* py_scanstring without escapes: s[i] is the opening quote
ScanString(s, i) ==
    LET close == IndexFrom(s, "\"", i + 1)
    IN IF close = 0 THEN ParseFail
       ELSE ParseOk(JStr(SubSeq(s, i + 1, close - 1)), close + 1)

\* NUMBER_RE: (-?(?:0|[1-9]\d*)): a leading 0 is a number on its own
ScanNumber(s, i) ==
    IF s[i] = "0" THEN ParseOk(JInt(0), i + 1)
    ELSE ParseOk(JInt(ToInt(SubSeq(s, i, DigitsEnd(s, i) - 1))), DigitsEnd(s, i))

RECURSIVE ScanOnce(_, _)
RECURSIVE ScanMembers(_, _, _)

\* JSONObject: i is at the opening quote of the next key
ScanMembers(s, i, acc) ==
    IF i > Len(s) \/ s[i] # "\"" THEN ParseFail
    ELSE LET key == ScanString(s, i)
         IN IF ~key.ok THEN ParseFail
            ELSE LET c == SkipWS(s, key.next)
                 IN IF c > Len(s) \/ s[c] # ":" THEN ParseFail
                    ELSE LET val == ScanOnce(s, SkipWS(s, c + 1))
                         IN IF ~val.ok THEN ParseFail
                            ELSE LET acc2 == (key.val.v :> val.val) @@ acc
                                     e == SkipWS(s, val.next)
                                 IN IF e > Len(s) THEN ParseFail
                                    ELSE IF s[e] = "}" THEN ParseOk(JObj(acc2), e + 1)
                                    ELSE IF s[e] = "," THEN ScanMembers(s, SkipWS(s, e + 1), acc2)
                                    ELSE ParseFail

\* scanner.py_make_scanner._scan_once
ScanOnce(s, i) ==
    IF i > Len(s) THEN ParseFail
    ELSE IF s[i] = "\"" THEN ScanString(s, i)
    ELSE IF s[i] = "{"
         THEN LET j == SkipWS(s, i + 1)
              IN IF j <= Len(s) /\ s[j] = "}" THEN ParseOk(JObj(EmptyObj), j + 1)
                 ELSE ScanMembers(s, j, EmptyObj)
    ELSE IF AtText(s, i, NullText) THEN ParseOk(JNull, i + Len(NullText))
    ELSE IF AtText(s, i, TrueText) THEN ParseOk(JTrue, i + Len(TrueText))
    ELSE IF AtText(s, i, FalseText) THEN ParseOk(JFalse, i + Len(FalseText))
    ELSE IF s[i] \in DigitSet THEN ScanNumber(s, i)
    ELSE ParseFail

\* json.loads(s, object_hook=...): [ok, val]; ok = FALSE is JSONDecodeError
JsonLoads(s) ==
    LET r == ScanOnce(s, SkipWS(s, 1))
    IN IF r.ok /\ SkipWS(s, r.next) = Len(s) + 1
       THEN [ok |-> TRUE, val |-> r.val]
       ELSE [ok |-> FALSE, val |-> JNull]

(* -------------------------- evidence store ----------------------------- *)
(* os.listdir("static/images"): a sequence of entries [name, isfile].      *)
Underscore == "_"
JpgExt == <<".", "j", "p", "g">>
JpegExt == <<".", "j", "p", "e", "g">>
PngExt == <<".", "p", "n", "g">>
GifExt == <<".", "g", "i", "f">>
WebpExt == <<".", "w", "e", "b", "p">>

\* get_unique_siteids: prefixes before the first underscore
get_unique_siteids(listing) ==
    { SplitFirst(listing[i].name, Underscore) :
        i \in { j \in 1..Len(listing) : Contains(listing[j].name, Underscore) } }

IsSiteImage(siteid, e) ==
    StartsWith(e.name, siteid \o <<Underscore>>) /\ e.isfile

\* get_site_image_paths: matching files, in listing order
get_site_image_paths(siteid, listing) ==
    LET sel == SelectSeq(listing, LAMBDA e : IsSiteImage(siteid, e))
    IN [i \in 1..Len(sel) |-> sel[i].name]

(* ------------------------- request builders --------------------------- *)
\* images[:10]
TruncateMutOver(images) == SubSeq(images, 1, Min(Len(images), ImageCap + 1))
Truncate(images) == SubSeq(images, 1, Min(Len(images), ImageCap))

\* convert_file_to_base64_data_url: the MIME type, "" when ValueError is raised
MimeTypeMutAny(file_path) == "image/jpeg"
MimeType(file_path) ==
    IF EndsWith(file_path, JpgExt) \/ EndsWith(file_path, JpegExt) THEN "image/jpeg"
    ELSE IF EndsWith(file_path, PngExt) THEN "image/png"
    ELSE IF EndsWith(file_path, GifExt) THEN "image/gif"
    ELSE ""

\* app.py lines 171-179: image_entries, or the ValueError of the first bad image
BuildChatgptRequest(images) ==
    LET used == Truncate(images)
    IN IF \E i \in 1..Len(used) : MimeType(used[i]) = ""
       THEN [ok |-> FALSE, entries |-> <<>>]
       ELSE [ok |-> TRUE,
             entries |-> [i \in 1..Len(used) |->
                            [mime |-> MimeType(used[i]), data |-> used[i]]]]

\* app_gemini.py lines 103-107: parts after the prompt
BuildGeminiRequest(images) ==
    LET used == Truncate(images)
    IN [ok |-> TRUE,
        entries |-> [i \in 1..Len(used) |->
                       [mime |-> "image/jpeg", data |-> used[i]]]]

(* --------------------------- results table ---------------------------- *)
(* A CSV file is [exists, lines]; a line is a sequence of cell texts.      *)
(* Quoting of cells is below the level of the model.                       *)
SiteIDText == <<"S", "i", "t", "e", "I", "D">>
hasShopText == <<"h", "a", "s", "S", "h", "o", "p">>
shopBrandText == <<"s", "h", "o", "p", "B", "r", "a", "n", "d">>
accuracyText == <<"a", "c", "c", "u", "r", "a", "c", "y">>
TokensText == <<"T", "o", "k", "e", "n", "s">>
usedPhotoDateText == <<"u", "s", "e", "d", "P", "h", "o", "t", "o", "D", "a", "t", "e">>
usedPhotoFileNameText == <<"u", "s", "e", "d", "P", "h", "o", "t", "o", "F", "i", "l", "e", "N", "a", "m", "e">>
isStreetViewPhotoText == <<"i", "s", "S", "t", "r", "e", "e", "t", "V", "i", "e", "w", "P", "h", "o", "t", "o">>

ChatgptHeader == <<SiteIDText, hasShopText, shopBrandText, accuracyText, TokensText>>
GeminiHeader == <<SiteIDText, hasShopText, shopBrandText, accuracyText, TokensText,
                  usedPhotoDateText, usedPhotoFileNameText, isStreetViewPhotoText>>
SiteIDCol == 1
shopBrandCol == 3

NoFile == [exists |-> FALSE, lines |-> <<>>]

NanText == <<"n", "a", "n">>
PointZero == <<".", "0">>
\* pandas' default na_values (the ones over the model's alphabet)
NAValues == {<<>>, NanText, <<"N", "a", "N">>, <<"N", "A">>, NullText}
IsNA(s) == s \in NAValues

IsFloatText(s) ==
    IsDigits(s) \/ (EndsWith(s, PointZero) /\ IsDigits(DropLast(s, 2)))
FloatInt(s) == IF IsDigits(s) THEN ToInt(s) ELSE ToInt(DropLast(s, 2))

\* the data cells of column c (the first line is the header)
Column(lines, c) == [i \in 1..(Len(lines) - 1) |-> lines[i + 1][c]]

\* read_csv's dtype inference for one column
ColumnKind(col) ==
    IF \A i \in 1..Len(col) : IsDigits(col[i]) THEN
        IF col = <<>> THEN "object" ELSE "int"
    ELSE IF \A i \in 1..Len(col) : IsFloatText(col[i]) \/ IsNA(col[i]) THEN "float"
    ELSE "object"

\* read_csv then .astype(str) of one cell of a column of the given kind
AsTypeStr(kind, s) ==
    IF kind = "int" THEN IntStr(ToInt(s))
    ELSE IF IsNA(s) THEN NanText
    ELSE IF kind = "float" THEN IntStr(FloatInt(s)) \o PointZero
    ELSE s

\* read_csv then to_csv of one cell of a column of the given kind
ToCsvText(kind, s) ==
    IF kind = "int" THEN IntStr(ToInt(s))
    ELSE IF IsNA(s) THEN <<>>
    ELSE IF kind = "float" THEN IntStr(FloatInt(s)) \o PointZero
    ELSE s

\* existing_data["SiteID"].astype(str), as a sequence
SiteIDStrings(file) ==
    LET col == Column(file.lines, SiteIDCol)
    IN [i \in 1..Len(col) |-> AsTypeStr(ColumnKind(col), col[i])]

\* __main__: processed_siteids (set of str) read from output_csv
ProcessedSiteids(file) ==
    IF ~file.exists THEN {}
    ELSE { SiteIDStrings(file)[i] : i \in 1..(Len(file.lines) - 1) }

\* the pending set: identifiers the loop does not skip
Pending(listing, file) == get_unique_siteids(listing) \ ProcessedSiteids(file)

\* df.to_csv(output_csv, mode='a', header=not file_exists, index=False)
AppendRowMutHeader(file, header, row) ==
    [exists |-> TRUE, lines |-> file.lines \o <<header, row>>]
AppendRow(file, header, row) ==
    [exists |-> TRUE,
     lines |-> IF file.exists THEN file.lines \o <<row>>
               ELSE <<header, row>>]

(* ------------------------- response parsing --------------------------- *)
\* the grave accent (U+0060), which cannot be written inside a TLA+ string
Backtick == "GRAVE"
FenceOpen == <<Backtick, Backtick, Backtick, "j", "s", "o", "n">>
FenceClose == <<Backtick, Backtick, Backtick>>
PyTrue == <<"T", "r", "u", "e">>
PyFalse == <<"F", "a", "l", "s", "e">>
PyNone == <<"N", "o", "n", "e">>

\* app_gemini.py lines 127-131
StripFenceMutOpen(text) ==
    LET a == Strip(text)
        b == IF StartsWith(a, FenceOpen) THEN DropFirst(a, FenceOpenLen - 1) ELSE a
    IN IF EndsWith(b, FenceClose) THEN DropLast(b, FenceCloseLen) ELSE b
StripFence(text) ==
    LET a == Strip(text)
        b == IF StartsWith(a, FenceOpen) THEN DropFirst(a, FenceOpenLen) ELSE a
    IN IF EndsWith(b, FenceClose) THEN DropLast(b, FenceCloseLen) ELSE b

SingleQuote == "'"
DoubleQuote == "\""

\* app_gemini.py line 132
FixLiteralsMutNoNone(s) ==
    Replace(Replace(Replace(s, <<SingleQuote>>, <<DoubleQuote>>),
                    PyTrue, TrueText), PyFalse, FalseText)
FixLiterals(s) ==
    Replace(Replace(Replace(Replace(s, <<SingleQuote>>, <<DoubleQuote>>),
                            PyTrue, TrueText), PyFalse, FalseText), PyNone, NullText)

\* app_gemini.py lines 127-135: [ok, val]
ParseGemini(text) == JsonLoads(FixLiterals(StripFence(text)))

\* app.py line 197: [ok, val]
ParseChatgpt(text) == JsonLoads(text)

\* getattr(response_json, name, None)
GetAttr(val, name) ==
    IF val.t = "obj" THEN
        IF name \in DOMAIN val.v THEN val.v[name] ELSE JNull
    ELSE JNull

\* response.attr: [ok, val]; ok = FALSE is AttributeError
Attr(val, name) ==
    IF val.t = "obj" THEN
        IF name \in DOMAIN val.v THEN [ok |-> TRUE, val |-> val.v[name]]
        ELSE [ok |-> FALSE, val |-> JNull]
    ELSE [ok |-> FALSE, val |-> JNull]

\* how to_csv writes one parsed value
CellText(val) ==
    IF val.t = "lit" THEN
        (IF val.v = "true" THEN PyTrue ELSE IF val.v = "false" THEN PyFalse ELSE <<>>)
    ELSE IF val.t = "str" THEN val.v
    ELSE IF val.t = "int" THEN IntStr(val.v)
    ELSE <<"n", "a", "m", "e", "s", "p", "a", "c", "e">>

(* ---------------------- the two pipeline handlers ---------------------- *)
(* A backend response is [err, text, tokens]: err = TRUE is any exception  *)
(* raised by the client call.  A handler result is                         *)
(* [outcome, file, submitted, request].                                    *)
HandlerResult(outcome, file, submitted, request) ==
    [outcome |-> outcome, file |-> file, submitted |-> submitted, request |-> request]

\* the value of a singleton set (binds a value that is computed once)
TheOne(S) == CHOOSE x \in S : TRUE

\* app.py lines 157-218
call_chatgpt_with_images(images, siteid, file, resp) ==
    TheOne({
        LET hasShop == Attr(parsed.val, hasShopText)
            shopBrand == Attr(parsed.val, shopBrandText)
            accuracy == Attr(parsed.val, accuracyText)
            row == <<siteid, CellText(hasShop.val), CellText(shopBrand.val),
                     CellText(accuracy.val), IntStr(resp.tokens)>>
        IN IF ~req.ok THEN HandlerResult("unsupported_format", file, FALSE, <<>>)
           ELSE IF resp.err THEN HandlerResult("inference_error", file, TRUE, req.entries)
           ELSE IF ~parsed.ok THEN HandlerResult("parse_failure", file, TRUE, req.entries)
           ELSE IF ~(hasShop.ok /\ shopBrand.ok /\ accuracy.ok)
                THEN HandlerResult("attribute_error", file, TRUE, req.entries)
           ELSE HandlerResult("appended", AppendRow(file, ChatgptHeader, row),
                              TRUE, req.entries)
        : req \in {BuildChatgptRequest(images)}, parsed \in {ParseChatgpt(resp.text)} })

\* app_gemini.py lines 91-165
call_gemini_with_imagesMutNoReturn(images, siteid, file, resp) ==
    TheOne({
        LET row == <<siteid, <<>>, <<>>, <<>>, IntStr(resp.tokens + 0), <<>>, <<>>, <<>>>>
        IN IF resp.err THEN HandlerResult("inference_error", file, TRUE, req.entries)
           ELSE IF ~parsed.ok
                THEN HandlerResult("parse_failure", AppendRow(file, GeminiHeader, row),
                                   TRUE, req.entries)
           ELSE HandlerResult("appended", AppendRow(file, GeminiHeader, row),
                              TRUE, req.entries)
        : req \in {BuildGeminiRequest(images)}, parsed \in {ParseGemini(resp.text)} })
call_gemini_with_images(images, siteid, file, resp) ==
    TheOne({
        LET row == <<siteid,
                     CellText(GetAttr(parsed.val, hasShopText)),
                     CellText(GetAttr(parsed.val, shopBrandText)),
                     CellText(GetAttr(parsed.val, accuracyText)),
                     IntStr(resp.tokens + 0),
                     CellText(GetAttr(parsed.val, usedPhotoDateText)),
                     CellText(GetAttr(parsed.val, usedPhotoFileNameText)),
                     CellText(GetAttr(parsed.val, isStreetViewPhotoText))>>
        IN IF resp.err THEN HandlerResult("inference_error", file, TRUE, req.entries)
           ELSE IF ~parsed.ok THEN HandlerResult("parse_failure", file, TRUE, req.entries)
           ELSE HandlerResult("appended", AppendRow(file, GeminiHeader, row),
                              TRUE, req.entries)
        : req \in {BuildGeminiRequest(images)}, parsed \in {ParseGemini(resp.text)} })

(* -------------------- dashboard: Save Changes handler ------------------ *)
(* admin.py lines 135-170, from the click on.  The handler reads           *)
(* gemini_output.csv (df, line 50, and original_df, line 161), the grid's  *)
(* data with its new_brand column, and the sheet df_sites (one row per     *)
(* integer siteid).  new_brand maps a row number to the brand text the     *)
(* user chose; rows the user left alone carry a missing value.  The page   *)
(* is taken to have rendered: the grid of line 79 selects a NetWatchBrand  *)
(* column that the pipeline does not write, so the table the dashboard     *)
(* shows carries that column from elsewhere; it plays no part in the       *)
(* handler.  Cells other than SiteID and shopBrand pass through read_csv   *)
(* and to_csv by the same column-wise inference.                           *)
MaxOf(S) == CHOOSE m \in S : \A k \in S : k <= m

\* int(site_id): [ok, n]; ok = FALSE is ValueError
SiteInt(kind, s) ==
    IF kind = "int" THEN [ok |-> TRUE, n |-> ToInt(s)]
    ELSE IF IsNA(s) THEN [ok |-> FALSE, n |-> 0]
    ELSE IF kind = "float" THEN [ok |-> TRUE, n |-> FloatInt(s)]
    ELSE IF IsDigits(s) THEN [ok |-> TRUE, n |-> ToInt(s)]
    ELSE [ok |-> FALSE, n |-> 0]

\* original_df['SiteID'] == site_id, for two cells of the SiteID column
SiteIDEq(kind, a, b) ==
    IF kind = "int" THEN ToInt(a) = ToInt(b)
    ELSE ~IsNA(a) /\ ~IsNA(b) /\ AsTypeStr(kind, a) = AsTypeStr(kind, b)

\* updated_df['new_brand'] != df['shopBrand'] for one row; a missing value
\* on both sides compares unequal for NaN and equal for None (nanChanged)
BrandChanged(newBrand, oldBrand, nanChanged) ==
    IF IsNA(newBrand) /\ IsNA(oldBrand) THEN nanChanged
    ELSE IF IsNA(newBrand) \/ IsNA(oldBrand) THEN TRUE
    ELSE newBrand # oldBrand

\* brand_options: the non-missing shopBrand values of the table
BrandOptions(file) ==
    { file.lines[i][shopBrandCol] : i \in 2..Len(file.lines) } \ NAValues

\* the handler: [outcome, file, sheet]
SaveChangesMutDrop(file, sheetv, edited, new_brand, nanChanged) ==
    [outcome |-> "rewritten",
     file |-> [exists |-> TRUE, lines |-> <<file.lines[1]>>],
     sheet |-> sheetv]
SaveChanges(file, sheetv, edited, new_brand, nanChanged) ==
    LET lines == file.lines
        n == Len(lines) - 1
        sid(r) == lines[r + 1][SiteIDCol]
        sidKind == ColumnKind(Column(lines, SiteIDCol))
        brand(r) == lines[r + 1][shopBrandCol]
        nb(r) == IF r \in edited THEN new_brand[r] ELSE <<>>
        changes == { r \in 1..n : BrandChanged(nb(r), brand(r), nanChanged) }
        site(r) == SiteInt(sidKind, sid(r))
        raised == \E r \in changes : ~site(r).ok \/ site(r).n \notin DOMAIN sheetv
        newSheet == [k \in DOMAIN sheetv |->
                        LET rs == { r \in changes : site(r).n = k }
                        IN IF rs = {} THEN sheetv[k] ELSE nb(MaxOf(rs))]
        kindOf(c) == ColumnKind(Column(lines, c))
        newCell(j, c) ==
            LET rs == { r \in changes : SiteIDEq(sidKind, sid(r), sid(j)) }
            IN IF c = shopBrandCol /\ rs # {} THEN nb(MaxOf(rs))
               ELSE ToCsvText(kindOf(c), lines[j + 1][c])
        newLines == [i \in 1..Len(lines) |->
                        IF i = 1 THEN lines[1]
                        ELSE [c \in 1..Len(lines[i]) |-> newCell(i - 1, c)]]
    IN IF edited = {} \/ raised
       THEN [outcome |-> "raised", file |-> file, sheet |-> sheetv]
       ELSE [outcome |-> "rewritten",
             file |-> [exists |-> TRUE, lines |-> newLines],
             sheet |-> newSheet]

(* ------------------------------ inputs --------------------------------- *)
\* k zeros
Zeros(k) == [i \in 1..k |-> "0"]
\* identifiers (non-empty): "7" with 0 .. MaxIdLen-1 leading zeros, and one
\* non-numeric identifier
Ids == { Zeros(k) \o <<"7">> : k \in 0..(MaxIdLen - 1) } \cup {<<"a">>}

RECURSIVE SetToSeq(_)
SetToSeq(S) ==
    IF S = {} THEN <<>>
    ELSE LET x == CHOOSE y \in S : TRUE IN <<x>> \o SetToSeq(S \ {x})

Shapes == {"jpg", "webp"}

\* the directory entry of one identifier in a small store
ShapeEntry(id, shape) ==
    IF shape = "jpg" THEN [name |-> id \o <<Underscore, "1">> \o JpgExt, isfile |-> TRUE]
    ELSE [name |-> id \o <<Underscore, "1">> \o WebpExt, isfile |-> TRUE]

\* a file without underscore, present in every store
NoiseEntry == [name |-> <<"7">> \o PngExt, isfile |-> TRUE]

SmallStores ==
    UNION { { <<NoiseEntry>> \o [i \in 1..Len(SetToSeq(S)) |->
                                   ShapeEntry(SetToSeq(S)[i], sh[SetToSeq(S)[i]])] :
              sh \in [S -> Shapes] } :
            S \in { T \in SUBSET Ids : Cardinality(T) \in 1..MaxIds } }

\* one identifier with n files, the bad-th of them (if any) a .webp,
\* listed in ascending or descending order of their suffix
LargeEntry(k, bad) ==
    [name |-> <<"7", Underscore>> \o IntStr(k) \o (IF k = bad THEN WebpExt ELSE GifExt),
     isfile |-> TRUE]
LargeStores ==
    { [i \in 1..n |-> LargeEntry(IF rev THEN n + 1 - i ELSE i, bad)] :
        n \in ImageCap..MaxImages, bad \in {0, 1, ImageCap, ImageCap + 1},
        rev \in BOOLEAN }

\* an identifier whose only entry is a directory
DirStores == { <<NoiseEntry, [name |-> <<"a", Underscore, "d">>, isfile |-> FALSE]>> }

Stores == SmallStores \cup LargeStores \cup DirStores

\* payload texts
KeyValue(k, v) == <<DoubleQuote>> \o k \o <<DoubleQuote, ":", " ">> \o v
Quoted(t) == <<DoubleQuote>> \o t \o <<DoubleQuote>>
RECURSIVE Join(_)
Join(ms) ==
    IF ms = <<>> THEN <<>>
    ELSE IF Len(ms) = 1 THEN ms[1]
    ELSE ms[1] \o <<",", " ">> \o Join(Tail(ms))
ObjectText(ms) == <<"{">> \o Join(ms) \o <<"}">>
Fenced(p) == FenceOpen \o <<"\n">> \o p \o <<"\n">> \o FenceClose

FullPayload(brand) ==
    ObjectText(<<KeyValue(hasShopText, TrueText),
                 KeyValue(shopBrandText, Quoted(brand)),
                 KeyValue(accuracyText, <<"9">>)>>)
PartialPayload == ObjectText(<<KeyValue(hasShopText, FalseText)>>)
NotJson == <<"n", "o", "t", " ", "j", "s", "o", "n", " ", "a", "t", " ", "a", "l", "l">>

\* what the backend may answer in a pipeline run
PipelinePayloads ==
    {FullPayload(<<"S">>), Fenced(FullPayload(<<"S">>)), PartialPayload, NotJson}
TokenCounts == {12}
Responses ==
    {[err |-> TRUE, text |-> <<>>, tokens |-> 0]}
    \cup { [err |-> FALSE, text |-> p, tokens |-> t] :
             p \in PipelinePayloads, t \in TokenCounts }

\* JSON object texts of up to MaxMembers members
ValueTexts ==
    {TrueText, FalseText, NullText, <<"9">>, Quoted(<<"S">>), Quoted(PyTrue),
     Quoted(<<"a", SingleQuote, "b">>)}
MemberTexts ==
    { KeyValue(k, v) : k \in {hasShopText, shopBrandText, accuracyText}, v \in ValueTexts }
JsonObjectTexts ==
    { ObjectText(ms) : ms \in UNION { [1..k -> MemberTexts] : k \in 0..MaxMembers } }

\* payloads in the literal dialect: the repr of a dict of up to MaxMembers
\* of the fields, keys in the order of the prompt.  repr quotes a string
\* with ' unless the string holds a ' (and no "), and then with "
FieldOrder == <<hasShopText, shopBrandText, accuracyText>>
PyValues ==
    {JTrue, JFalse, JNull, JInt(9), JStr(<<"S">>), JStr(PyNone),
     JStr(<<"a", SingleQuote, "b">>)}
PyDicts ==
    UNION { [K -> PyValues] :
              K \in { F \in SUBSET {FieldOrder[i] : i \in 1..Len(FieldOrder)} :
                         Cardinality(F) <= MaxMembers } }
PyValueRepr(v) ==
    IF v.t = "lit" THEN
        (IF v.v = "true" THEN PyTrue ELSE IF v.v = "false" THEN PyFalse ELSE PyNone)
    ELSE IF v.t = "int" THEN IntStr(v.v)
    ELSE IF Contains(v.v, SingleQuote) THEN <<DoubleQuote>> \o v.v \o <<DoubleQuote>>
    ELSE <<SingleQuote>> \o v.v \o <<SingleQuote>>
PyMember(k, v) == <<SingleQuote>> \o k \o <<SingleQuote, ":", " ">> \o PyValueRepr(v)
PyRepr(d) ==
    LET ks == SelectSeq(FieldOrder, LAMBDA k : k \in DOMAIN d)
    IN ObjectText([i \in 1..Len(ks) |-> PyMember(ks[i], d[ks[i]])])

\* the sheet behind df_sites: integer siteid -> shopBrand
SheetSiteIds == {0, 7}

(* ------------------------------- state --------------------------------- *)
Procs == {1, 2}
SeqProc == 1

VARIABLES
    script,             \* "app" (chatgpt_output.csv) or "app_gemini" (gemini_output.csv)
    listdir,            \* os.listdir(images_folder)
    csv,                \* the script's output_csv
    sheet,              \* the Google sheet read and written by the dashboard
    pc,                 \* per process: "idle" or "loop"
    todo,               \* per process: identifiers of siteids not yet iterated
    processed_siteids,  \* per process: the set read at the start of the run
    runs,               \* runs started
    saves,              \* Save Changes clicks
    lastAttempt,        \* history: the last call of the handler
    lastSave,           \* history: outcome of the last Save Changes
    failedNow,          \* history: identifiers whose attempt failed in this run
    failedPrev,         \* history: the same for the previous run
    prevClean,          \* history: a previous run exists and none of its attempts failed
    appendedNow,        \* history: rows appended by this run
    appendedTotal,      \* history: rows appended by all runs
    attempts,           \* history, per process: handler calls per identifier in its run
    payload,            \* parser check: the payload text
    parsePc,            \* parser check: "off", "input", "plain", "done"
    plainResult,        \* parser check: parse of the payload
    fencedResult,       \* parser check: parse of the fenced payload
    literal             \* parser check: the object the payload is the repr of

pipeVars == <<script, listdir, csv, sheet, pc, todo, processed_siteids, runs, saves,
              lastAttempt, lastSave, failedNow, failedPrev, prevClean,
              appendedNow, appendedTotal, attempts>>
parseVars == <<payload, parsePc, plainResult, fencedResult, literal>>
vars == <<pipeVars, parseVars>>

NoAttempt ==
    [seq |-> 0, siteid |-> <<>>, outcome |-> "none", submitted |-> FALSE,
     request |-> <<>>, images |-> <<>>]
NoResult == [ok |-> FALSE, val |-> JNull]
NoAttempts == [s \in Ids |-> 0]

PipeIdle ==
    /\ sheet = [k \in SheetSiteIds |-> <<>>]
    /\ csv = NoFile
    /\ pc = [p \in Procs |-> "idle"]
    /\ todo = [p \in Procs |-> {}]
    /\ processed_siteids = [p \in Procs |-> {}]
    /\ runs = 0
    /\ saves = 0
    /\ lastAttempt = NoAttempt
    /\ lastSave = "none"
    /\ failedNow = {}
    /\ failedPrev = {}
    /\ prevClean = FALSE
    /\ appendedNow = 0
    /\ appendedTotal = 0
    /\ attempts = [p \in Procs |-> NoAttempts]

Init ==
    /\ script \in {"app", "app_gemini"}
    /\ listdir \in Stores
    /\ PipeIdle
    /\ payload = <<>>
    /\ parsePc = "off"
    /\ plainResult = NoResult
    /\ fencedResult = NoResult
    /\ literal = EmptyObj

Header == IF script = "app" THEN ChatgptHeader ELSE GeminiHeader

\* the test of the loop body, "if siteid in processed_siteids: continue":
\* the set is the one read before the loop; the table is not read again
AlreadyProcessedMutReread(siteid, snapshot, file) ==
    siteid \in ProcessedSiteids(file)
AlreadyProcessed(siteid, snapshot, file) ==
    siteid \in snapshot

\* the identifiers the for loop still visits after the iteration of siteid:
\* the handler returns whatever its outcome (its except clauses catch every
\* Exception and print), so the loop goes on with the next identifier
RemainingMutAbort(rest, siteid, outcome) ==
    IF outcome = "appended" THEN rest \ {siteid} ELSE {}
Remaining(rest, siteid, outcome) ==
    rest \ {siteid}

\* __main__ up to the loop: siteids and processed_siteids
StartRun(p) ==
    /\ pc[p] = "idle"
    /\ runs < MaxRuns
    /\ pc' = [pc EXCEPT ![p] = "loop"]
    /\ todo' = [todo EXCEPT ![p] = get_unique_siteids(listdir)]
    /\ processed_siteids' = [processed_siteids EXCEPT ![p] = ProcessedSiteids(csv)]
    /\ runs' = runs + 1
    /\ failedPrev' = failedNow
    /\ failedNow' = {}
    /\ prevClean' = (runs >= 1 /\ failedNow = {})
    /\ appendedNow' = 0
    /\ attempts' = [attempts EXCEPT ![p] = NoAttempts]
    /\ UNCHANGED <<script, listdir, csv, sheet, saves, lastAttempt, lastSave,
                   appendedTotal, parseVars>>

\* one iteration that skips: siteid in processed_siteids
Skip(p, siteid) ==
    /\ pc[p] = "loop"
    /\ siteid \in todo[p]
    /\ AlreadyProcessed(siteid, processed_siteids[p], csv)
    /\ todo' = [todo EXCEPT ![p] = @ \ {siteid}]
    /\ UNCHANGED <<script, listdir, csv, sheet, pc, processed_siteids, runs, saves,
                   lastAttempt, lastSave, failedNow, failedPrev, prevClean,
                   appendedNow, appendedTotal, attempts, parseVars>>

\* one iteration that calls the handler
Attempt(p, siteid, resp) ==
    /\ pc[p] = "loop"
    /\ siteid \in todo[p]
    /\ ~AlreadyProcessed(siteid, processed_siteids[p], csv)
    /\ \E images \in {get_site_image_paths(siteid, listdir)} :
       \E r \in {IF script = "app"
                 THEN call_chatgpt_with_images(images, siteid, csv, resp)
                 ELSE call_gemini_with_images(images, siteid, csv, resp)} :
       \E ok \in {r.outcome = "appended"} :
          /\ csv' = r.file
          /\ lastAttempt' = [seq |-> lastAttempt.seq + 1, siteid |-> siteid,
                             outcome |-> r.outcome, submitted |-> r.submitted,
                             request |-> r.request, images |-> images]
          /\ failedNow' = IF ok THEN failedNow ELSE failedNow \cup {siteid}
          /\ appendedNow' = IF ok THEN appendedNow + 1 ELSE appendedNow
          /\ appendedTotal' = IF ok THEN appendedTotal + 1 ELSE appendedTotal
          /\ todo' = [todo EXCEPT ![p] = Remaining(@, siteid, r.outcome)]
    /\ attempts' = [attempts EXCEPT ![p][siteid] = @ + 1]
    /\ UNCHANGED <<script, listdir, sheet, pc, processed_siteids, runs, saves,
                   lastSave, failedPrev, prevClean, parseVars>>

\* the loop is exhausted and the script exits
EndRun(p) ==
    /\ pc[p] = "loop"
    /\ todo[p] = {}
    /\ pc' = [pc EXCEPT ![p] = "idle"]
    /\ UNCHANGED <<script, listdir, csv, sheet, todo, processed_siteids, runs, saves,
                   lastAttempt, lastSave, failedNow, failedPrev, prevClean,
                   appendedNow, appendedTotal, attempts, parseVars>>

\* admin.py: the rerun of the page on a click of Save Changes
Save(edited, new_brand, nanChanged) ==
    /\ script = "app_gemini"
    /\ csv.exists
    /\ saves < MaxSaves
    /\ \E r \in {SaveChanges(csv, sheet, edited, new_brand, nanChanged)} :
          /\ csv' = r.file
          /\ sheet' = r.sheet
          /\ lastSave' = r.outcome
    /\ saves' = saves + 1
    /\ UNCHANGED <<script, listdir, pc, todo, processed_siteids, runs, lastAttempt,
                   failedNow, failedPrev, prevClean, appendedNow, appendedTotal,
                   attempts, parseVars>>

SaveClick ==
    \E edited \in SUBSET (1..(Len(csv.lines) - 1)) :
        \E new_brand \in [edited -> BrandOptions(csv)] :
            \E nanChanged \in BOOLEAN :
                Save(edited, new_brand, nanChanged)

\* runs do not overlap: a run starts only when no run is in progress
StartRunAlone(p) ==
    /\ \A q \in Procs : pc[q] = "idle"
    /\ StartRun(p)

Next ==
    \/ StartRunAlone(SeqProc)
    \/ \E siteid \in Ids : Skip(SeqProc, siteid)
    \/ \E siteid \in Ids, resp \in Responses : Attempt(SeqProc, siteid, resp)
    \/ EndRun(SeqProc)
    \/ SaveClick

Spec == Init /\ [][Next]_vars

\* a started run keeps executing: the script is one sequential program, and
\* a call of the handler ends by returning (a backend call that never
\* answers is outside the model: it answers or raises)
RunStep ==
    \/ \E siteid \in Ids : Skip(SeqProc, siteid)
    \/ \E siteid \in Ids, resp \in Responses : Attempt(SeqProc, siteid, resp)
    \/ EndRun(SeqProc)

SpecLive == Spec /\ WF_vars(RunStep)

(* ------------------------- overlapping runs ----------------------------- *)
(* Two invocations of the script at once: each is a process of its own     *)
(* with its own siteids and processed_siteids, and they share the table.   *)
(* Nothing in __main__ takes a lock or looks for another run, so a run     *)
(* starts whatever the other process is doing.  A step is one iteration    *)
(* of the loop: the read of the table before the loop and the append of    *)
(* the handler are separate steps, as in the code.                         *)
\* two runs of app_gemini.py (app.py has the same __main__) over a store
\* whose files every backend takes
RaceStores ==
    { st \in SmallStores : \A i \in 1..Len(st) : ~EndsWith(st[i].name, WebpExt) }

InitRace ==
    /\ script = "app_gemini"
    /\ listdir \in RaceStores
    /\ PipeIdle
    /\ payload = <<>>
    /\ parsePc = "off"
    /\ plainResult = NoResult
    /\ fencedResult = NoResult
    /\ literal = EmptyObj

NextRace ==
    \E p \in Procs :
        \/ StartRun(p)
        \/ \E siteid \in Ids : Skip(p, siteid)
        \/ \E siteid \in Ids, resp \in Responses : Attempt(p, siteid, resp)
        \/ EndRun(p)

SpecRace == InitRace /\ [][NextRace]_vars

(* ---------------------- the parser on its own --------------------------- *)
InitParse ==
    /\ script = "app_gemini"
    /\ listdir = <<NoiseEntry>>
    /\ PipeIdle
    /\ payload \in JsonObjectTexts
    /\ parsePc = "input"
    /\ plainResult = NoResult
    /\ fencedResult = NoResult
    /\ literal = EmptyObj

ParsePlain ==
    /\ parsePc = "input"
    /\ plainResult' = ParseGemini(payload)
    /\ parsePc' = "plain"
    /\ UNCHANGED <<pipeVars, payload, fencedResult, literal>>

ParseFenced ==
    /\ parsePc = "plain"
    /\ fencedResult' = ParseGemini(Fenced(payload))
    /\ parsePc' = "done"
    /\ UNCHANGED <<pipeVars, payload, plainResult, literal>>

NextParse == ParsePlain \/ ParseFenced

SpecParse == InitParse /\ [][NextParse]_vars

(* ------------- the parser on payloads in the literal dialect ------------ *)
InitDialect ==
    /\ script = "app_gemini"
    /\ listdir = <<NoiseEntry>>
    /\ PipeIdle
    /\ literal \in PyDicts
    /\ payload = PyRepr(literal)
    /\ parsePc = "input"
    /\ plainResult = NoResult
    /\ fencedResult = NoResult

SpecDialect == InitDialect /\ [][NextParse]_vars

(* ------------------------------ properties ----------------------------- *)
IsPrefix(a, b) == Len(a) <= Len(b) /\ SubSeq(b, 1, Len(a)) = a
SupportedExt(name) ==
    \E ext \in {JpgExt, JpegExt, PngExt, GifExt} : EndsWith(name, ext)
DataRows == IF csv.exists THEN Len(csv.lines) - 1 ELSE 0

\* C1: a run that follows a run none of whose attempts failed (evidence
\* unchanged) appends no row.  This is the claim in its most favourable
\* case; the claim as worded also covers first runs with failures.
C1_SecondRunAppendsNothing ==
    (runs >= 2 /\ prevClean) => appendedNow = 0

\* C2: under sequential runs the results table never holds two data rows
\* with the same SiteID.
C2_NoDuplicateSiteID ==
    \A i, j \in 2..Len(csv.lines) :
        i # j => csv.lines[i][SiteIDCol] # csv.lines[j][SiteIDCol]

\* C3: an identifier whose row was just appended is absent from the pending
\* set the selector computes from the table (read back and coerced to str).
C3_AppendedNotPending ==
    lastAttempt.outcome = "appended"
        => lastAttempt.siteid \notin Pending(listdir, csv)

\* C4: an attempt that ends in a failure (unsupported format, inference
\* error, parse failure) leaves the results table exactly as it was.
C4_FailedItemWritesNoRow ==
    [][(lastAttempt' # lastAttempt /\ lastAttempt'.outcome # "appended")
          => csv' = csv]_vars
W_C4 ==
    /\ lastAttempt.outcome = "parse_failure"
    /\ csv.exists
    /\ lastAttempt.seq >= 2

\* C5: an identifier whose attempt failed in the previous run is still
\* pending when the next run reads the processed set, so it is attempted again.
C5_FailedIsRetriedNextRun ==
    pc[SeqProc] = "loop" => failedPrev \cap processed_siteids[SeqProc] = {}

C7_RequestIsFirstTen ==
    lastAttempt.outcome \notin {"none", "unsupported_format"} =>
        LET imgs == get_site_image_paths(lastAttempt.siteid, listdir)
            k == IF Len(imgs) < ImageCap THEN Len(imgs) ELSE ImageCap
        IN /\ Len(lastAttempt.request) = k
           /\ \A i \in 1..k : lastAttempt.request[i].data = imgs[i]
W_C7 ==
    /\ lastAttempt.submitted
    /\ Len(lastAttempt.images) > ImageCap
    /\ Len(lastAttempt.request) = ImageCap

\* C8 (as claimed): for backend A, an identifier one of whose evidence files
\* has an unsupported extension fails with the unsupported-format error
\* and no inference call is submitted.
C8_AnyUnsupportedFails ==
    (/\ script = "app"
     /\ lastAttempt.seq > 0
     /\ \E i \in 1..Len(lastAttempt.images) : ~SupportedExt(lastAttempt.images[i]))
        => (lastAttempt.outcome = "unsupported_format" /\ ~lastAttempt.submitted)
\* C8 (amended): for backend A, an unsupported extension among the first 10
\* images fails the attempt: no request, no inference call, table unchanged.
C8_UnsupportedInFirstTenFails ==
    [][(/\ lastAttempt' # lastAttempt
        /\ script = "app"
        /\ \E i \in 1..Len(lastAttempt'.images) :
              i <= ImageCap /\ ~SupportedExt(lastAttempt'.images[i]))
          => (/\ lastAttempt'.outcome = "unsupported_format"
              /\ ~lastAttempt'.submitted
              /\ lastAttempt'.request = <<>>
              /\ csv' = csv)]_vars
W_C8 ==
    /\ lastAttempt.outcome = "unsupported_format"
    /\ Len(lastAttempt.images) > ImageCap
    /\ ~csv.exists

\* C9: the table, once it exists, has the header as its first line and
\* nowhere else, and one data row per append.
C9_OneHeaderFirst ==
    /\ ~csv.exists => appendedTotal = 0
    /\ csv.exists =>
        /\ csv.lines[1] = Header
        /\ \A i \in 2..Len(csv.lines) : csv.lines[i] # Header
        /\ DataRows = appendedTotal
W_C9 ==
    /\ runs >= 2
    /\ appendedNow >= 1
    /\ DataRows >= 2

\* C10: the parser of app_gemini.py gives the same result for a JSON object
\* text and for the same text inside a markdown code fence.
C10_FenceRoundTrip ==
    parsePc = "done" => fencedResult = plainResult
W_C10 ==
    /\ parsePc = "done"
    /\ plainResult.ok
    /\ fencedResult.ok
    /\ hasShopText \in DOMAIN fencedResult.val.v

\* the text s holds the text sub
HasSub(s, sub) ==
    \E i \in 1..(Len(s) - Len(sub) + 1) : SubSeq(s, i, i + Len(sub) - 1) = sub
\* no string of the dict holds a quote character or one of True, False, None
PlainStrings(d) ==
    \A k \in DOMAIN d :
        d[k].t = "str" =>
            \A sub \in {<<SingleQuote>>, <<DoubleQuote>>, PyTrue, PyFalse, PyNone} :
                ~HasSub(d[k].v, sub)
Equivalent(d) == [ok |-> TRUE, val |-> JObj(d)]

\* C11 (as claimed): the parser of app_gemini.py reads every payload written
\* in the literal dialect as the equivalent JSON object.
C11_DialectParsedAsJson ==
    parsePc # "input" => plainResult = Equivalent(literal)
\* C11 (amended): the parser of app_gemini.py reads a payload written in the
\* literal dialect as the equivalent JSON object, bare or inside a fence,
\* when no string in it holds a quote character or True, False or None.
C11_PlainDialectParsedAsJson ==
    PlainStrings(literal) =>
        /\ parsePc # "input" => plainResult = Equivalent(literal)
        /\ parsePc = "done" => fencedResult = Equivalent(literal)
W_C11 ==
    /\ parsePc = "done"
    /\ payload = <<"{", SingleQuote, "h", "a", "s", "S", "h", "o", "p", SingleQuote,
                   ":", " ", "T", "r", "u", "e", ",", " ",
                   SingleQuote, "s", "h", "o", "p", "B", "r", "a", "n", "d", SingleQuote,
                   ":", " ", "N", "o", "n", "e", "}">>
    /\ plainResult.ok
    /\ plainResult.val.v[hasShopText] = JTrue
    /\ plainResult.val.v[shopBrandText] = JNull

\* C12: for both backends, an attempt whose payload parses as a JSON object
\* appends a row even when the object lacks recognized fields (a missing
\* field is written as null); the item does not fail on the missing field.
C12_MissingFieldStillAppends ==
    [][(/\ lastAttempt' # lastAttempt
        /\ lastAttempt'.outcome \notin
              {"unsupported_format", "inference_error", "parse_failure"})
          => (/\ lastAttempt'.outcome = "appended"
              /\ csv'.exists
              /\ Len(csv'.lines) > Len(csv.lines))]_vars

\* C13: with overlapping runs the skip test of a run looks only at the
\* processed set the run read before its loop: an identifier absent from
\* that set is handed to the handler whatever the table holds by then,
\* and a successful attempt appends one more row with that SiteID.  So
\* two runs that both read the set before either appends an identifier's
\* row both append it (W_C13: two rows of one SiteID).
C13_SnapshotDecides ==
    [][\A p \in Procs, s \in Ids :
          (/\ pc[p] = "loop"
           /\ s \in todo[p]
           /\ s \notin todo'[p]
           /\ s \notin processed_siteids[p])
            => (/\ lastAttempt'.seq = lastAttempt.seq + 1
                /\ lastAttempt'.siteid = s
                /\ lastAttempt'.outcome = "appended" =>
                      /\ csv'.exists
                      /\ Len(csv'.lines) = (IF csv.exists THEN Len(csv.lines) ELSE 1) + 1
                      /\ csv'.lines[Len(csv'.lines)][SiteIDCol] = s
                      /\ \A i \in 2..Len(csv.lines) : csv'.lines[i] = csv.lines[i])]_vars
W_C13 ==
    /\ \A p \in Procs : processed_siteids[p] = {} /\ attempts[p][<<"a">>] = 1
    /\ \E i, j \in 2..Len(csv.lines) :
          /\ i # j
          /\ csv.lines[i][SiteIDCol] = <<"a">>
          /\ csv.lines[j][SiteIDCol] = <<"a">>

\* C14: in a run, an identifier of the store is handed to the handler at
\* most once and never when the processed set read at the start holds it;
\* when the run has ended every identifier of the store absent from that
\* set has been attempted exactly once, failed attempts included; and a
\* run that has started ends.
C14_EveryPendingOnceThenEnd ==
    /\ [](\A s \in Ids :
            /\ attempts[SeqProc][s] <= 1
            /\ (s \in processed_siteids[SeqProc] \/ s \notin get_unique_siteids(listdir))
                  => attempts[SeqProc][s] = 0
            /\ (/\ pc[SeqProc] = "idle"
                /\ runs >= 1
                /\ s \in get_unique_siteids(listdir)
                /\ s \notin processed_siteids[SeqProc])
                  => attempts[SeqProc][s] = 1)
    /\ [](pc[SeqProc] = "loop" => <>(pc[SeqProc] = "idle"))
W_C14 ==
    /\ pc[SeqProc] = "idle"
    /\ runs >= 1
    /\ failedNow # {}
    /\ lastAttempt.outcome = "appended"
    /\ lastAttempt.siteid \notin failedNow
    /\ \A s \in failedNow : attempts[SeqProc][s] = 1

====
